---- MODULE Spec2Model ----
(***************************************************************************)
(* Model of LabAgentSkill's SkillAwareAgent (SkillAwareAgent.py): the      *)
(* trim_messages middleware, SkillAwareAgent.chat with its truncation      *)
(* retry loop, and clear_history.  The LangGraph checkpointer              *)
(* (InMemorySaver) is modelled as a map from thread_id to the message      *)
(* list it holds for that thread.  Further: the reply parsers of           *)
(* skills_utils/skill_util.py (parse_skills_from_json_response,            *)
(* parse_message_from_json_response) with the JSON decoder they call, and  *)
(* the Selection / Discovery / Execution loop of the evaluation scripts    *)
(* test_agent_finer_300_stadard-claude.py and -qwen.py with their          *)
(* baseline approaches on agent_simple; the label extractors of            *)
(* evaluate.py (get_predicted_label, get_prediction_XBRL_TAGS,             *)
(* get_insurBench_predicted_label) and the history export                  *)
(* get_human_ai_message_history.                                           *)
(***************************************************************************)
EXTENDS Integers, Sequences, FiniteSets, TLC

\* ------------------------------------------------------------------------
\* Bounds of the model
\* ------------------------------------------------------------------------
\* longest user text a caller passes to chat
MaxLen == 33
\* length of the user text of the exchanges of Spec
SessionLen == 4
\* number of chat calls in one behaviour of Spec
MaxExchanges == 3
\* longest message list handed to the trimmer on its own (SpecTrim)
MaxMsgs == 7
\* number of faults the provider raises in one behaviour of Spec
MaxFaults == 2

\* ------------------------------------------------------------------------
\* Program constants
\* ------------------------------------------------------------------------
MAX_TRUNCATION_RETRIES == 5

\* Optional[X]: None is the empty set, a value x is {x}.
None == {}
Some(x) == {x}
Get(o) == CHOOSE x \in o : TRUE

\* A text is a sequence of characters; the characters of a user text are
\* pairwise distinct so that a prefix is told apart from any other slice.
Text(n) == [i \in 1..n |-> i]
UserTexts == {Text(n) : n \in 0..MaxLen}
SessionText == Text(SessionLen)

\* self.system_prompt of __init__ and a per-call custom_system_prompt
DefaultSystemPrompt == <<-1>>
CustomSystemPrompt == <<-2>>

\* The thread_id given to __init__ (the default "1"), the thread ids a caller
\* puts in a config of its own, and the values uuid.uuid4() yields: the n-th
\* uuid is a value no caller-chosen identity equals.
InitThreadId == 1
CallerThreadIds == {2}
Uuid(n) == -n

Responses == {<<-10>>}

\* An exception raised by agent.invoke: whether it is an
\* openai.BadRequestError, and which words str(e).lower() contains.
Error(b, c, m, t) ==
    [bad_request |-> b, context_length |-> c, maximum |-> m, token |-> t]
Errors == {Error(TRUE, TRUE, FALSE, FALSE), Error(TRUE, FALSE, TRUE, TRUE),
           Error(TRUE, FALSE, TRUE, FALSE), Error(TRUE, FALSE, FALSE, FALSE),
           Error(FALSE, TRUE, FALSE, FALSE)}

VARIABLES
    model,              \* which of "claude", "google" occur in model.lower()
    use_chat_history,   \* self.use_chat_history
    use_trim_messages,  \* self.use_trim_messages
    persist_failed,     \* does the checkpointer keep the input of a failed run
    runtime_config,     \* thread_id held by self.runtime_config
    caller_config,      \* thread_id held by a config dict the caller owns
    next_uuid,          \* the next value uuid.uuid4() yields
    checkpoints,        \* InMemorySaver: thread_id -> message list
    first_entry,        \* thread_id -> first message ever stored under it
    used_threads,       \* thread ids under which agent.invoke was called
    chat_history,       \* self.chat_history.messages
    pc,                 \* "idle" or "invoke" (inside chat's retry loop)
    user_input,         \* chat's parameter
    system_message,     \* chat's resolved system prompt
    current_input,      \* chat's local
    attempt,            \* chat's loop variable
    should_use_history, \* chat's local
    cfg,                \* which config dict chat's runtime_config aliases
    exchanges,          \* number of chat calls started
    history_before,     \* chat_history when the running / last chat began
    outcome,            \* how the last chat ended
    faults,             \* number of exceptions agent.invoke raised so far
    last_fault,         \* what the last agent.invoke raised, None if it returned
    calls,              \* the agent.invoke calls of the running / last chat
    messages,           \* SpecTrim: state["messages"] given to trim_messages
    trimmed,            \* SpecTrim: the message list after the hook
    json_response,      \* SpecParse: the reply text handed to the parsers
    skills_hub,         \* read_all_skills_metadata(skills_folder)
    skills_result,      \* SpecParse: how parse_skills_from_json_response ended
    message_result,     \* SpecParse: how parse_message_from_json_response ended
    script,             \* which evaluation script runs: "claude" or "qwen"
    task,               \* number of dataset rows the main loop has begun
    step,               \* where the main loop stands in the current row
    selected_skills,    \* the script's selected_skills
    selected_skill_names_step1, \* the script's local of that name
    hit_target_skill,   \* the script's local of that name
    skill_execution_context,    \* the blocks appended so far
    skill_count,        \* the script's global counter
    skill_count_prev,   \* the script's local of that name
    discovery_rounds,   \* the script's local of that name
    exchanges_log,      \* the chat calls of the current row, in order
    record,             \* the script's record, None before the first
    history_select,     \* agent_skill_aware.chat_history.messages
    history_exec,       \* agent_skill_exec_agent.chat_history.messages
    approach_start,     \* SpecApproaches: exchanges when the approach began
    message_classification, \* SpecLabel: the text handed to the extractors
    predicted_label,    \* SpecLabel: how get_predicted_label ended
    xbrl_tag,           \* SpecLabel: how get_prediction_XBRL_TAGS ended
    insur_label         \* SpecLabel: how get_insurBench_predicted_label ended

parseVars == <<json_response, skills_result, message_result>>

labelVars == <<message_classification, predicted_label, xbrl_tag, insur_label>>

pipelineVars == <<script, task, step, selected_skills,
                  selected_skill_names_step1, hit_target_skill,
                  skill_execution_context, skill_count, skill_count_prev,
                  discovery_rounds, exchanges_log, record, history_select,
                  history_exec, approach_start>>

vars == <<model, use_chat_history, use_trim_messages, persist_failed,
          runtime_config, caller_config, next_uuid, checkpoints, first_entry,
          used_threads, chat_history, pc, user_input, system_message,
          current_input, attempt, should_use_history, cfg, exchanges,
          history_before, outcome, faults, last_fault, calls, messages, trimmed,
          skills_hub, parseVars, pipelineVars, labelVars>>

agentVars == <<model, use_chat_history, use_trim_messages, persist_failed,
               runtime_config, caller_config, next_uuid, checkpoints,
               first_entry, used_threads, chat_history, pc, user_input,
               system_message, current_input, attempt, should_use_history,
               cfg, exchanges, history_before, outcome, faults, last_fault,
               calls>>

\* ------------------------------------------------------------------------
\* trim_messages (the before_model middleware)
\* ------------------------------------------------------------------------
\* messages[-n:] of Python, for n >= 1
LastN(msgs, n) ==
    IF Len(msgs) <= n THEN msgs ELSE SubSeq(msgs, Len(msgs) - n + 1, Len(msgs))

\* mutant: the parity test of the slice the other way round
recent_messages_flipped(msgs) ==
    IF Len(msgs) % 2 = 0 THEN LastN(msgs, 4) ELSE LastN(msgs, 3)

\* the slice of recent messages the hook keeps
recent_messages(msgs) ==
    IF Len(msgs) % 2 = 0 THEN LastN(msgs, 3) ELSE LastN(msgs, 4)

\* mutant: the early return taken for fewer than 3 messages only
trim_messages_below3(msgs) ==
    IF Len(msgs) < 3
    THEN [update |-> FALSE, messages |-> <<>>]
    ELSE [update |-> TRUE,
          messages |-> <<msgs[1]>> \o
              (IF Len(msgs) % 2 = 0 THEN LastN(msgs, 3) ELSE LastN(msgs, 4))]

\* mutant: the hook keeps the recent slice and drops the first message
trim_messages_no_first(msgs) ==
    IF Len(msgs) <= 3
    THEN [update |-> FALSE, messages |-> <<>>]
    ELSE [update |-> TRUE,
          messages |-> IF Len(msgs) % 2 = 0
                       THEN LastN(msgs, 4) ELSE LastN(msgs, 5)]

\* The hook's return value: no update (Python None) or a full replacement
\* (RemoveMessage(REMOVE_ALL_MESSAGES) followed by the kept messages).
trim_messages(msgs) ==
    IF Len(msgs) <= 3
    THEN [update |-> FALSE, messages |-> <<>>]
    ELSE [update |-> TRUE, messages |-> <<msgs[1]>> \o recent_messages(msgs)]

\* The message list after the hook's update went through the reducer.
ApplyTrim(msgs) ==
    LET r == trim_messages(msgs)
    IN  IF r.update THEN r.messages ELSE msgs

\* ------------------------------------------------------------------------
\* SkillAwareAgent.__init__
\* ------------------------------------------------------------------------
NoOutcome == [kind |-> "none", error |-> None, response |-> None]

AgentInit ==
    /\ model \in SUBSET {"claude", "google"}
    /\ use_chat_history \in BOOLEAN
    /\ use_trim_messages \in BOOLEAN
    /\ persist_failed \in BOOLEAN
    /\ runtime_config = InitThreadId
    /\ caller_config \in CallerThreadIds
    /\ next_uuid = 1
    /\ checkpoints = <<>>
    /\ first_entry = <<>>
    /\ used_threads = {}
    /\ chat_history = <<>>
    /\ pc = "idle"
    /\ user_input = <<>>
    /\ system_message = <<>>
    /\ current_input = <<>>
    /\ attempt = 0
    /\ should_use_history = FALSE
    /\ cfg = "self"
    /\ exchanges = 0
    /\ history_before = <<>>
    /\ outcome = NoOutcome
    /\ faults = 0
    /\ last_fault = None
    /\ calls = <<>>

\* no reply has been handed to the parsers
ParseIdle ==
    /\ json_response = <<>>
    /\ skills_result = None
    /\ message_result = None

\* no text has been handed to the label extractors
LabelIdle ==
    /\ message_classification = None
    /\ predicted_label = None
    /\ xbrl_tag = None
    /\ insur_label = None

\* the main loop of the evaluation script has not been entered
PipelineIdle ==
    /\ script = "claude"
    /\ task = 0
    /\ step = "select"
    /\ selected_skills = <<>>
    /\ selected_skill_names_step1 = <<>>
    /\ hit_target_skill = FALSE
    /\ skill_execution_context = <<>>
    /\ skill_count = 0
    /\ skill_count_prev = 0
    /\ discovery_rounds = 0
    /\ exchanges_log = <<>>
    /\ record = None
    /\ history_select = <<>>
    /\ history_exec = <<>>
    /\ approach_start = 0

Init ==
    /\ AgentInit
    /\ messages = <<>>
    /\ trimmed = None
    /\ skills_hub = <<>>
    /\ ParseIdle
    /\ LabelIdle
    /\ PipelineIdle

\* ------------------------------------------------------------------------
\* The checkpointer and the agent graph behind agent.invoke
\* ------------------------------------------------------------------------
\* the message list the checkpointer holds for thread t
Thread(t) == IF t \in DOMAIN checkpoints THEN checkpoints[t] ELSE <<>>

Put(f, t, v) == [x \in (DOMAIN f) \cup {t} |-> IF x = t THEN v ELSE f[x]]

\* the thread_id of the config dict chat's runtime_config aliases
ConfigThread == IF cfg = "self" THEN runtime_config ELSE caller_config

Msg(role, content) ==
    [role |-> role, content |-> content, exchange |-> exchanges,
     attempt |-> attempt]

\* the messages chat hands to agent.invoke
InputMessages ==
    IF "google" \in model
    THEN <<Msg("human", system_message \o current_input)>>
    ELSE <<Msg("system", system_message), Msg("human", current_input)>>

\* the thread's state once the input went through the add_messages reducer
Merged == Thread(ConfigThread) \o InputMessages

\* the message list the model node receives
ModelInput == IF use_trim_messages THEN ApplyTrim(Merged) ELSE Merged

Call ==
    [thread |-> ConfigThread, attempt |-> attempt, input |-> current_input,
     before |-> Thread(ConfigThread), used_before |-> used_threads,
     presented |-> Merged, passed |-> ModelInput]

Store(stored) ==
    /\ checkpoints' = Put(checkpoints, ConfigThread, stored)
    /\ first_entry' =
         IF ConfigThread \in DOMAIN first_entry \/ stored = <<>>
         THEN first_entry
         ELSE Put(first_entry, ConfigThread, stored[1])

\* mutant: the retry keeps the thread_id it failed under
Rotate_keep(c) == UNCHANGED <<next_uuid, runtime_config, caller_config>>

\* config["configurable"]["thread_id"] = str(uuid.uuid4()), on the config
\* dict c ("self": self.runtime_config, "caller": the caller's own dict)
Rotate(c) ==
    /\ next_uuid' = next_uuid + 1
    /\ IF c = "self"
       THEN runtime_config' = Uuid(next_uuid) /\ UNCHANGED caller_config
       ELSE caller_config' = Uuid(next_uuid) /\ UNCHANGED runtime_config

\* ------------------------------------------------------------------------
\* SkillAwareAgent.chat
\* ------------------------------------------------------------------------
\* mutant: "maximum" alone taken for a context-length message
IsContextLengthError_maximum(e) == e.context_length \/ e.maximum

\* "context length" in err_msg or "maximum" in err_msg and "token" in err_msg
IsContextLengthError(e) == e.context_length \/ (e.maximum /\ e.token)

\* mutant: the halved length rounded up
Truncate_ceil(text) == SubSeq(text, 1, (Len(text) + 1) \div 2)

\* current_input[: old_len // 2]
Truncate(text) == SubSeq(text, 1, Len(text) \div 2)

\* mutant: one retry fewer
RetriesRemain_fewer(n) == n < MAX_TRUNCATION_RETRIES - 1

\* attempt < MAX_TRUNCATION_RETRIES
RetriesRemain(n) == n < MAX_TRUNCATION_RETRIES

\* mutant: the text of the last attempt recorded as the human entry
Recorded_submitted(response) ==
    <<[role |-> "human", content |-> current_input],
      [role |-> "ai", content |-> response]>>

\* add_user_message(user_input); add_ai_message(response)
Recorded(response) ==
    <<[role |-> "human", content |-> user_input],
      [role |-> "ai", content |-> response]>>

\* mutant: the exchange recorded whatever should_use_history says
NewHistory_always(response) == chat_history \o Recorded(response)

\* if should_use_history: record the exchange in self.chat_history
NewHistory(response) ==
    IF should_use_history
    THEN chat_history \o Recorded(response)
    ELSE chat_history

\* chat up to the retry loop: resolve the history flag, the config and the
\* system prompt; a Claude model gets a fresh thread_id for the call.
ChatBegin(text, custom_system_prompt, use_history, config) ==
    /\ pc = "idle"
    /\ exchanges' = exchanges + 1
    /\ should_use_history' =
         IF use_history # None THEN Get(use_history) ELSE use_chat_history
    /\ cfg' = config
    /\ system_message' =
         IF custom_system_prompt # None
         THEN Get(custom_system_prompt) ELSE DefaultSystemPrompt
    /\ IF "claude" \in model
       THEN Rotate(config)
       ELSE UNCHANGED <<next_uuid, runtime_config, caller_config>>
    /\ user_input' = text
    /\ current_input' = text
    /\ attempt' = 0
    /\ pc' = "invoke"
    /\ history_before' = chat_history
    /\ outcome' = [kind |-> "running", error |-> None, response |-> None]
    /\ calls' = <<>>
    /\ last_fault' = None
    /\ UNCHANGED <<model, use_chat_history, use_trim_messages, persist_failed,
                   checkpoints, first_entry, used_threads, chat_history,
                   faults, messages, trimmed,
                   skills_hub, parseVars, pipelineVars, labelVars>>

\* One iteration of the retry loop in which agent.invoke returns: the
\* reply is appended to the thread, the loop is left, the response text is
\* taken from the last message of the result and the exchange is recorded.
InvokeReturns(reply) ==
    /\ pc = "invoke"
    /\ LET result == ModelInput \o <<Msg("ai", reply)>>
           response == result[Len(result)].content
       IN  /\ Store(result)
           /\ chat_history' = NewHistory(response)
           /\ outcome' = [kind |-> "returned", error |-> None,
                          response |-> Some(response)]
    /\ calls' = Append(calls, Call)
    /\ last_fault' = None
    /\ used_threads' = used_threads \cup {ConfigThread}
    /\ pc' = "idle"
    /\ UNCHANGED <<model, use_chat_history, use_trim_messages, persist_failed,
                   runtime_config, caller_config, next_uuid, user_input,
                   system_message, current_input, attempt, should_use_history,
                   cfg, exchanges, history_before, faults, messages, trimmed,
                   skills_hub, parseVars, pipelineVars, labelVars>>

\* One iteration of the retry loop in which agent.invoke raises e.  Whether
\* the checkpointer keeps the messages of the failed run is the library's
\* choice (persist_failed).  A context-length BadRequestError with retries
\* left halves the input and rotates the thread_id; anything else is raised.
InvokeRaises(e) ==
    /\ pc = "invoke"
    /\ faults' = faults + 1
    /\ IF persist_failed
       THEN Store(ModelInput)
       ELSE UNCHANGED <<checkpoints, first_entry>>
    /\ calls' = Append(calls, Call)
    /\ last_fault' = Some(e)
    /\ used_threads' = used_threads \cup {ConfigThread}
    /\ IF e.bad_request /\ IsContextLengthError(e) /\ RetriesRemain(attempt)
       THEN /\ current_input' = Truncate(current_input)
            /\ Rotate(cfg)
            /\ attempt' = attempt + 1
            /\ UNCHANGED <<pc, outcome>>
       ELSE /\ pc' = "idle"
            /\ outcome' = [kind |-> "raised", error |-> Some(e),
                           response |-> None]
            /\ UNCHANGED <<current_input, attempt, next_uuid, runtime_config,
                           caller_config>>
    /\ UNCHANGED <<model, use_chat_history, use_trim_messages, persist_failed,
                   chat_history, user_input, system_message,
                   should_use_history, cfg, exchanges, history_before,
                   messages, trimmed,
                   skills_hub, parseVars, pipelineVars, labelVars>>

\* ------------------------------------------------------------------------
\* SkillAwareAgent.clear_history
\* ------------------------------------------------------------------------
ClearHistory ==
    /\ pc = "idle"
    /\ chat_history # <<>>
    /\ chat_history' = <<>>
    /\ UNCHANGED <<model, use_chat_history, use_trim_messages, persist_failed,
                   runtime_config, caller_config, next_uuid, checkpoints,
                   first_entry, used_threads, pc, user_input, system_message,
                   current_input, attempt, should_use_history, cfg, exchanges,
                   history_before, outcome, faults, last_fault, calls,
                   messages, trimmed,
                   skills_hub, parseVars, pipelineVars, labelVars>>

\* ------------------------------------------------------------------------
\* SkillAwareAgent.get_human_ai_message_history
\* ------------------------------------------------------------------------
\* the turn counter incremented on every message
next_turn_each(role, turn) == turn + 1

\* turn += 1 on a HumanMessage only
next_turn(role, turn) == IF role = "human" THEN turn + 1 ELSE turn

\* the for loop over the messages of a chat history, turn being the counter
RECURSIVE export_from(_, _)
export_from(msgs, turn) ==
    IF msgs = <<>> THEN <<>>
    ELSE LET msg == Head(msgs)
             now == next_turn(msg.role, turn)
         IN  IF msg.role \in {"human", "ai"}
             THEN <<[role |-> msg.role, content |-> msg.content,
                     turn |-> now]>> \o export_from(Tail(msgs), now)
             ELSE export_from(Tail(msgs), turn)

get_human_ai_message_history == export_from(chat_history, 0)

\* Sessions: up to MaxExchanges calls of chat on one agent, with either
\* config and any history override, and up to MaxFaults provider faults.
SessionBegin ==
    \E use_history \in {None, Some(TRUE), Some(FALSE)},
       config \in {"self", "caller"} :
        /\ exchanges < MaxExchanges
        /\ ChatBegin(SessionText, None, use_history, config)

Returns == \E reply \in Responses : InvokeReturns(reply)

SessionRaises == \E e \in Errors : faults < MaxFaults /\ InvokeRaises(e)

Next == SessionBegin \/ Returns \/ SessionRaises \/ ClearHistory

Spec == Init /\ [][Next]_vars

\* The retry loop: one call of chat on a new agent, with a user text of
\* every length up to MaxLen and as many faults as the loop takes.
RetryBegin ==
    \E text \in UserTexts,
       custom_system_prompt \in {None, Some(CustomSystemPrompt)},
       config \in {"self", "caller"} :
        /\ exchanges = 0
        /\ ChatBegin(text, custom_system_prompt, None, config)

RetryRaises == \E e \in Errors : InvokeRaises(e)

NextRetry == RetryBegin \/ Returns \/ RetryRaises \/ ClearHistory

SpecRetry == Init /\ [][NextRetry]_vars

\* The trimmer on its own: every message list of up to MaxMsgs entries,
\* each entry with a role and an identity of its own, goes through the hook.
Roles == {"system", "human", "ai"}

MessageLists ==
    UNION {{[i \in 1..n |-> [role |-> r[i], id |-> i]] : r \in [1..n -> Roles]}
             : n \in 0..MaxMsgs}

InitTrim ==
    /\ AgentInit
    /\ model = {}
    /\ use_chat_history
    /\ use_trim_messages
    /\ persist_failed
    /\ messages \in MessageLists
    /\ trimmed = None
    /\ skills_hub = <<>>
    /\ ParseIdle
    /\ LabelIdle
    /\ PipelineIdle

TrimHook ==
    /\ trimmed = None
    /\ trimmed' = Some(ApplyTrim(messages))
    /\ UNCHANGED <<messages, skills_hub, parseVars, pipelineVars, labelVars>>

NextTrim == TrimHook /\ UNCHANGED agentVars

SpecTrim == InitTrim /\ [][NextTrim]_vars

\* ------------------------------------------------------------------------
\* Properties of trim_messages (SpecTrim)
\* ------------------------------------------------------------------------
\* C7: for every message list with 3 or fewer entries the hook is a no-op:
\* the list after the hook is the list before it.
C7_TrimNoOpUpTo3 ==
    (trimmed # None /\ Len(messages) <= 3) => Get(trimmed) = messages

C7_Witness == trimmed # None /\ Len(messages) = 3 /\ Get(trimmed) = messages

\* C8: for every message list of length L > 3 the list after the hook is the
\* first entry followed by the last 3 (L even) or last 4 (L odd) entries in
\* their order; it has 4 resp. 5 entries, starts with the original first
\* entry and holds no entry of the input twice.
C8_TrimShape ==
    (trimmed # None /\ Len(messages) > 3) =>
        LET L == Len(messages)
            out == Get(trimmed)
            k == IF L % 2 = 0 THEN 3 ELSE 4
        IN  /\ Len(out) = k + 1
            /\ out[1] = messages[1]
            /\ \A i \in 1..k : out[1 + i] = messages[L - k + i]
            /\ \A i, j \in 1..Len(out) : i # j => out[i] # out[j]

C8_Witness ==
    /\ trimmed # None
    /\ Len(messages) = MaxMsgs
    /\ Len(Get(trimmed)) < Len(messages)

\* ------------------------------------------------------------------------
\* Properties of the retry loop of chat (SpecRetry)
\* ------------------------------------------------------------------------
\* the fault of the last agent.invoke is one the loop takes for a
\* context-length fault: a BadRequestError whose message says so
LastFaultIsOverflow ==
    /\ last_fault # None
    /\ Get(last_fault).bad_request
    /\ \/ Get(last_fault).context_length
       \/ Get(last_fault).maximum /\ Get(last_fault).token

Pow2(k) == 2 ^ k

\* C1: when every attempt so far raised a context-length fault, the text
\* submitted on the attempt that follows k faults (1 <= k <= 5) is the prefix
\* of the original user text of length floor(N / 2^k).
C1_HalvedPrefix ==
    \A i \in 1..Len(calls) :
        LET k == i - 1
        IN  (1 <= k /\ k <= 5) =>
              calls[i].input =
                SubSeq(user_input, 1, Len(user_input) \div Pow2(k))

C1_Witness ==
    /\ Len(calls) = 6
    /\ Len(user_input) = MaxLen
    /\ Len(calls[6].input) = 1
    /\ Len(calls[3].input) = 8

\* C2 as claimed: once 5 attempts have failed with a context-length fault
\* the error has surfaced to the caller and no further model call is made.
C2_Original ==
    (Len(calls) >= 5 /\ LastFaultIsOverflow) =>
        /\ pc = "idle"
        /\ outcome.kind = "raised"
        /\ Len(calls) = 5

\* C2 as amended: with a provider that raises a context-length fault on
\* every attempt, chat makes 6 model calls (the first attempt and 5 retries);
\* the error of the 6th surfaces to the caller and no further call is made;
\* after fewer than 6 faults the loop is still running.
C2_SixAttempts ==
    /\ Len(calls) <= 6
    /\ LastFaultIsOverflow =>
         IF Len(calls) = 6
         THEN /\ pc = "idle"
              /\ outcome.kind = "raised"
              /\ outcome.error = last_fault
         ELSE /\ pc = "invoke"
              /\ outcome.kind = "running"
              /\ attempt = Len(calls)

C2_Witness ==
    /\ Len(calls) = 6
    /\ LastFaultIsOverflow
    /\ outcome.kind = "raised"

\* C3: a fault that is not a context-length fault ends the exchange at
\* once: the same error reaches the caller, no further model call is made,
\* the user text is not truncated and the thread_id is not rotated.
C3_OtherFaultPropagates ==
    (last_fault # None /\ ~LastFaultIsOverflow) =>
        /\ pc = "idle"
        /\ outcome.kind = "raised"
        /\ outcome.error = last_fault
        /\ current_input = calls[Len(calls)].input
        /\ ConfigThread = calls[Len(calls)].thread
        /\ attempt = calls[Len(calls)].attempt

C3_Witness ==
    /\ last_fault # None
    /\ ~LastFaultIsOverflow
    /\ Get(last_fault).bad_request
    /\ Get(last_fault).maximum
    /\ Len(calls) = 3
    /\ outcome.kind = "raised"

\* ------------------------------------------------------------------------
\* Properties of exchanges in a session (Spec)
\* ------------------------------------------------------------------------
\* C4: chat_history is changed by a call of chat only in the step that
\* completes it successfully with history tracking enabled for the call;
\* after any other step of the call chat_history is what it was when the
\* call began.
C4_HistoryFrame ==
    [][/\ (pc = "idle" /\ pc' = "invoke") => chat_history' = chat_history
       /\ pc = "invoke" =>
            \/ pc' = "idle" /\ outcome'.kind = "returned" /\ should_use_history
            \/ chat_history' = history_before]_vars

C4_Witness ==
    /\ pc = "idle"
    /\ history_before # <<>>
    /\ chat_history = history_before
    /\ \/ outcome.kind = "raised" /\ should_use_history /\ Len(calls) > 1
       \/ outcome.kind = "returned" /\ ~should_use_history

\* C5: a successful exchange with history tracking enabled appends exactly
\* one human/ai pair to chat_history; the human entry holds the user text as
\* the caller passed it, also when a retry shortened the submitted text, and
\* the ai entry holds the reply of the model.
C5_RecordsOriginalText ==
    [][(pc = "invoke" /\ pc' = "idle" /\ outcome'.kind = "returned"
            /\ should_use_history) =>
         LET stored == checkpoints'[ConfigThread]
         IN  /\ stored[Len(stored)].role = "ai"
             /\ chat_history' = chat_history \o
                  <<[role |-> "human", content |-> user_input],
                    [role |-> "ai", content |-> stored[Len(stored)].content]>>]_vars

C5_Witness ==
    /\ pc = "idle"
    /\ outcome.kind = "returned"
    /\ should_use_history
    /\ history_before # <<>>
    /\ current_input # user_input
    /\ Len(chat_history) = Len(history_before) + 2
    /\ chat_history[Len(chat_history) - 1].content = user_input

\* C6: every retry after a context-length fault runs under a thread_id that
\* no earlier agent.invoke of the agent used; the checkpointer holds nothing
\* for it, so the list passed to the model holds only the messages of this
\* attempt.
C6_RetryOnFreshThread ==
    \A i \in 1..Len(calls) :
        calls[i].attempt >= 1 =>
            /\ calls[i].thread \notin calls[i].used_before
            /\ calls[i].before = <<>>
            /\ \A j \in 1..Len(calls[i].passed) :
                 /\ calls[i].passed[j].exchange = exchanges
                 /\ calls[i].passed[j].attempt = calls[i].attempt

C6_Witness ==
    /\ exchanges >= 2
    /\ Len(calls) >= 2
    /\ calls[1].before # <<>>
    /\ calls[2].used_before # {}
    /\ calls[2].before = <<>>

\* C9: for every message list of more than 3 entries that chat presents to
\* the trimmer, the recent slice the trimmer keeps (the entries after the
\* first kept one) begins on a human message.
C9_RecentSliceStartsHuman ==
    \A i \in 1..Len(calls) :
        (use_trim_messages /\ Len(calls[i].presented) > 3) =>
            calls[i].passed[2].role = "human"

\* C10: with trimming enabled the list passed to the model never holds more
\* than 5 messages, and its first message is the first message ever stored
\* under the thread_id of the call.
C10_BoundedWindow ==
    use_trim_messages =>
        \A i \in 1..Len(calls) :
            /\ Len(calls[i].passed) <= 5
            /\ calls[i].passed[1] =
                 IF calls[i].before = <<>>
                 THEN calls[i].presented[1]
                 ELSE first_entry[calls[i].thread]

C10_Witness ==
    /\ use_trim_messages
    /\ Len(calls) = 1
    /\ Len(calls[1].presented) = 8
    /\ Len(calls[1].passed) = 4
    /\ calls[1].passed[1] = first_entry[calls[1].thread]
    /\ calls[1].passed[1].exchange = 1

\* ------------------------------------------------------------------------
\* Python strings and the values json.loads yields
\* ------------------------------------------------------------------------
\* A str is a sequence of characters; a letter carries its case.
Ch(c) == [c |-> c, upper |-> FALSE]

Up(c) == [c |-> c, upper |-> TRUE]

Space == Ch(" ")

Newline == Ch("\n")

Quote == Ch("\"")

\* the str spelled by the lower-case letters w
Word(w) == [i \in DOMAIN w |-> Ch(w[i])]

\* Word(w) with its first letter a capital
Capitalized(w) == [i \in DOMAIN w |-> IF i = 1 THEN Up(w[i]) ELSE Ch(w[i])]

\* str.lower()
lower(s) == [i \in DOMAIN s |-> Ch(s[i].c)]

\* str.strip()
strip(s) ==
    LET kept == {i \in DOMAIN s : s[i] # Space}
    IN  IF kept = {} THEN <<>>
        ELSE SubSeq(s, CHOOSE i \in kept : \A j \in kept : i <= j,
                       CHOOSE i \in kept : \A j \in kept : j <= i)

\* A decoded JSON value: t is its Python type, the other fields hold the
\* payload of that type (a dict is the sequence of its key/value pairs).
JValue(t, b, n, s, items, pairs) ==
    [t |-> t, b |-> b, n |-> n, s |-> s, items |-> items, pairs |-> pairs]

JNull == JValue("null", FALSE, 0, <<>>, <<>>, <<>>)

JBool(b) == JValue("bool", b, 0, <<>>, <<>>, <<>>)

JNum(n) == JValue("num", FALSE, n, <<>>, <<>>, <<>>)

JStr(s) == JValue("str", FALSE, 0, s, <<>>, <<>>)

JList(items) == JValue("list", FALSE, 0, <<>>, items, <<>>)

JObj(pairs) == JValue("obj", FALSE, 0, <<>>, <<>>, pairs)

Pair(key, value) == [key |-> key, value |-> value]

\* bool(v): None, False, 0, "", [] and {} are falsy
Truthy(v) ==
    CASE v.t = "null" -> FALSE
      [] v.t = "bool" -> v.b
      [] v.t = "num"  -> v.n # 0
      [] v.t = "str"  -> v.s # <<>>
      [] v.t = "list" -> v.items # <<>>
      [] v.t = "obj"  -> v.pairs # <<>>

\* a or b
py_or(a, b) == IF Truthy(a) THEN a ELSE b

\* dict.get(key, default) on a dict
dict_get(data, key, default) ==
    LET at == {i \in DOMAIN data.pairs : data.pairs[i].key = key}
    IN  IF at = {} THEN default
        ELSE data.pairs[CHOOSE i \in at : \A j \in at : j <= i].value

\* can a for clause run over v
Iterable(v) == v.t \in {"str", "list", "obj"}

\* the members a for clause over v yields, in order
Members(v) ==
    CASE v.t = "str"  -> [i \in DOMAIN v.s |-> JStr(<<v.s[i]>>)]
      [] v.t = "list" -> v.items
      [] v.t = "obj"  -> [i \in DOMAIN v.pairs |-> JStr(v.pairs[i].key)]

\* str(v) of a scalar
py_str(v) ==
    CASE v.t = "str"  -> v.s
      [] v.t = "num"  -> <<Ch(ToString(v.n))>>
      [] v.t = "null" -> <<Up("n"), Ch("o"), Ch("n"), Ch("e")>>
      [] v.t = "bool" -> IF v.b THEN <<Up("t"), Ch("r"), Ch("u"), Ch("e")>>
                         ELSE <<Up("f"), Ch("a"), Ch("l"), Ch("s"), Ch("e")>>

\* the JSON text of a value
RECURSIVE dumps(_)
RECURSIVE dumps_items(_)
RECURSIVE dumps_pairs(_)
dumps(v) ==
    CASE v.t = "null" -> <<Ch("null")>>
      [] v.t = "bool" -> <<Ch(IF v.b THEN "true" ELSE "false")>>
      [] v.t = "num"  -> <<Ch(ToString(v.n))>>
      [] v.t = "str"  -> <<Quote>> \o v.s \o <<Quote>>
      [] v.t = "list" -> <<Ch("[")>> \o dumps_items(v.items) \o <<Ch("]")>>
      [] v.t = "obj"  -> <<Ch("{")>> \o dumps_pairs(v.pairs) \o <<Ch("}")>>

dumps_items(items) ==
    IF items = <<>> THEN <<>>
    ELSE dumps(Head(items))
         \o (IF Len(items) > 1 THEN <<Ch(",")>> ELSE <<>>)
         \o dumps_items(Tail(items))

dumps_pairs(pairs) ==
    IF pairs = <<>> THEN <<>>
    ELSE <<Quote>> \o Head(pairs).key \o <<Quote, Ch(":")>>
         \o dumps(Head(pairs).value)
         \o (IF Len(pairs) > 1 THEN <<Ch(",")>> ELSE <<>>)
         \o dumps_pairs(Tail(pairs))

\* ------------------------------------------------------------------------
\* The skills hub and the replies of the model
\* ------------------------------------------------------------------------
\* longest list of names a reply carries under its skills field
MaxNames == 2

\* the target skill name the scripts hard-code, "XBRL-tag-classification",
\* shortened to "XBRL-tag"
TargetName ==
    <<Up("x"), Up("b"), Up("r"), Up("l"), Ch("-"), Ch("t"), Ch("a"), Ch("g")>>

NameB == <<Ch("b")>>

NameC == <<Up("c")>>

\* a skill of the hub as read_all_skills_metadata yields it; its body is a
\* header line followed by one line of text
Skill(name, letter) ==
    [name |-> name, description |-> <<Ch("d"), Ch(letter)>>,
     body |-> <<Ch("#"), Newline, Ch(letter)>>]

\* the hub keeps the target skill under one of these spellings
StoredTargetNames == {TargetName, lower(TargetName)}

Hubs == {<<Skill(n, "t"), Skill(NameB, "b"), Skill(NameC, "c")>>
           : n \in StoredTargetNames}

\* the names a reply lists: hub names in several spellings and one unknown
ReplyNames ==
    {TargetName, lower(TargetName), NameB, <<Up("b")>>, lower(NameC),
     <<Ch("z")>>}

KeySkills == Word(<<"s", "k", "i", "l", "l", "s">>)

KeySkillsCap == Capitalized(<<"s", "k", "i", "l", "l", "s">>)

KeyMessage == Word(<<"m", "e", "s", "s", "a", "g", "e">>)

KeyMessageCap == Capitalized(<<"m", "e", "s", "s", "a", "g", "e">>)

KeyReasoning == Word(<<"r", "e", "a", "s", "o", "n", "i", "n", "g">>)

KeyResponse == Word(<<"r", "e", "s", "p", "o", "n", "s", "e">>)

\* the lists of names of MaxNames entries or fewer
NameLists ==
    UNION {{JList([i \in 1..k |-> JStr(f[i])]) : f \in [1..k -> ReplyNames]}
             : k \in 0..MaxNames}

\* replies that are an object with a list of names under skills / Skills
SelectionDocs ==
    {JObj(<<Pair(KeySkills, l)>>) : l \in NameLists}
    \cup {JObj(<<Pair(KeySkillsCap, l)>>) : l \in NameLists}
    \cup {JObj(<<Pair(KeySkills, JList(<<>>)), Pair(KeySkillsCap, l)>>)
            : l \in NameLists}
    \cup {JObj(<<Pair(KeySkills, JList(<<JStr(NameB)>>)),
                 Pair(KeySkillsCap, JList(<<JStr(TargetName)>>))>>)}

\* valid JSON of another shape
OddDocs ==
    {JNull, JBool(TRUE), JNum(7), JStr(NameB), JList(<<JStr(TargetName)>>),
     JObj(<<>>),
     JObj(<<Pair(KeySkills, JNull)>>),
     JObj(<<Pair(KeySkills, JNum(7))>>),
     JObj(<<Pair(KeySkills, JStr(NameB \o lower(NameC)))>>),
     JObj(<<Pair(KeySkills, JList(<<JNum(7)>>))>>),
     JObj(<<Pair(KeySkills, JList(<<JStr(NameB), JNull>>))>>),
     JObj(<<Pair(KeySkills, JObj(<<Pair(NameB, JNum(7))>>))>>)}

\* an answer field is absent (None) or carries one of a few values
Field(key, choice) == IF choice = None THEN <<>> ELSE <<Pair(key, Get(choice))>>

\* replies that are an object with some of the four answer fields
AnswerDocs ==
    {JObj(Field(KeyMessage, a) \o Field(KeyMessageCap, b)
          \o Field(KeyReasoning, c) \o Field(KeyResponse, d))
       : a \in {None, Some(JStr(<<>>)), Some(JStr(<<Space, Ch("m"), Space>>))},
         b \in {None, Some(JNull), Some(JStr(<<Up("m")>>))},
         c \in {None, Some(JNum(0)), Some(JStr(<<Ch("r")>>))},
         d \in {None, Some(JStr(<<>>)), Some(JNum(0)),
                Some(JStr(<<Ch("p")>>))}}

JsonDocs == SelectionDocs \cup OddDocs \cup AnswerDocs

\* texts that are not JSON
JunkTexts == {<<>>, <<Ch("j")>>, TargetName, <<Ch("{")>>}

Margins == {<<>>, <<Space>>}

\* the reply texts: a JSON document or junk, with or without white space
\* around it
ReplyTexts ==
    {lead \o text \o trail
       : lead \in Margins, trail \in Margins,
         text \in {dumps(v) : v \in JsonDocs} \cup JunkTexts}

\* what the decoder made of the head of a text: nothing (ok is FALSE), or
\* a value and the rest of the text
Failed == [ok |-> FALSE, value |-> JNull, rest |-> <<>>]

Scanned(value, rest) == [ok |-> TRUE, value |-> value, rest |-> rest]

Digits == {ToString(n) : n \in 0..9}

\* the decoder of json.loads: one value at the head of the text s
RECURSIVE scan_value(_)
RECURSIVE scan_items(_, _)
RECURSIVE scan_pairs(_, _)
scan_value(s) ==
    IF s = <<>> THEN Failed
    ELSE
      LET h == Head(s)
          t == Tail(s)
          quotes == {i \in DOMAIN t : t[i] = Quote}
          close == CHOOSE i \in quotes : \A j \in quotes : i <= j
      IN  CASE h = Ch("null") -> Scanned(JNull, t)
            [] h = Ch("true") -> Scanned(JBool(TRUE), t)
            [] h = Ch("false") -> Scanned(JBool(FALSE), t)
            [] h.c \in Digits /\ ~h.upper ->
                   Scanned(JNum(CHOOSE n \in 0..9 : ToString(n) = h.c), t)
            [] h = Quote ->
                   IF quotes = {} THEN Failed
                   ELSE Scanned(JStr(SubSeq(t, 1, close - 1)),
                                SubSeq(t, close + 1, Len(t)))
            [] h = Ch("[") ->
                   IF t # <<>> /\ Head(t) = Ch("]")
                   THEN Scanned(JList(<<>>), Tail(t))
                   ELSE scan_items(<<>>, t)
            [] h = Ch("{") ->
                   IF t # <<>> /\ Head(t) = Ch("}")
                   THEN Scanned(JObj(<<>>), Tail(t))
                   ELSE scan_pairs(<<>>, t)
            [] OTHER -> Failed

\* the members of a list after those in done, up to the closing bracket
scan_items(done, s) ==
    LET v == scan_value(s)
    IN  IF ~v.ok \/ v.rest = <<>> THEN Failed
        ELSE IF Head(v.rest) = Ch("]")
        THEN Scanned(JList(Append(done, v.value)), Tail(v.rest))
        ELSE IF Head(v.rest) = Ch(",")
        THEN scan_items(Append(done, v.value), Tail(v.rest))
        ELSE Failed

\* the pairs of an object after those in done, up to the closing brace
scan_pairs(done, s) ==
    LET k == scan_value(s)
        v == scan_value(Tail(k.rest))
        pairs == Append(done, Pair(k.value.s, v.value))
    IN  IF ~k.ok \/ k.value.t # "str" \/ k.rest = <<>> THEN Failed
        ELSE IF Head(k.rest) # Ch(":") THEN Failed
        ELSE IF ~v.ok \/ v.rest = <<>> THEN Failed
        ELSE IF Head(v.rest) = Ch("}")
        THEN Scanned(JObj(pairs), Tail(v.rest))
        ELSE IF Head(v.rest) = Ch(",")
        THEN scan_pairs(pairs, Tail(v.rest))
        ELSE Failed

\* json.loads(text): None when it raises JSONDecodeError
json_loads(text) ==
    LET scanned == scan_value(strip(text))
    IN  IF scanned.ok /\ scanned.rest = <<>> THEN Some(scanned.value)
        ELSE None

\* ------------------------------------------------------------------------
\* skill_util.py: parse_skills_from_json_response and
\* parse_message_from_json_response
\* ------------------------------------------------------------------------
\* how a call ended: it returned value, or raised an exception
Return(value) == [raised |-> "", value |-> value]

Raise(exception) == [raised |-> exception, value |-> <<>>]

\* skills_lookup.get(key) where skills_lookup maps each hub skill's
\* lower-cased name to the skill, compared without lower-casing the hub's
\* names
skills_lookup_exact(hub, key) ==
    LET at == {i \in DOMAIN hub : hub[i].name = key}
    IN  IF at = {} THEN None
        ELSE Some(hub[CHOOSE i \in at : \A j \in at : j <= i])

\* skills_lookup.get(key) where skills_lookup maps each hub skill's
\* lower-cased name to the skill (a later skill replaces an earlier one)
skills_lookup(hub, key) ==
    LET at == {i \in DOMAIN hub : lower(hub[i].name) = key}
    IN  IF at = {} THEN None
        ELSE Some(hub[CHOOSE i \in at : \A j \in at : j <= i])

\* the list comprehension over skill_names, all of them str
RECURSIVE matched_skills(_, _)
matched_skills(skill_names, hub) ==
    IF skill_names = <<>> THEN <<>>
    ELSE LET found == skills_lookup(hub, lower(Head(skill_names).s))
         IN  (IF found = None THEN <<>> ELSE <<Get(found)>>)
             \o matched_skills(Tail(skill_names), hub)

parse_skills_from_json_response(text, hub) ==
    LET loaded == json_loads(text)
    IN  IF loaded = None THEN Return(<<>>)
        ELSE IF Get(loaded).t # "obj" THEN Raise("AttributeError")
        ELSE
          LET data == Get(loaded)
              skill_names == py_or(dict_get(data, KeySkills, JList(<<>>)),
                                   dict_get(data, KeySkillsCap, JList(<<>>)))
          IN  IF ~Truthy(skill_names) THEN Return(<<>>)
              ELSE IF ~Iterable(skill_names) THEN Return(<<>>)
              ELSE IF \E i \in DOMAIN Members(skill_names) :
                          Members(skill_names)[i].t # "str"
                   THEN Raise("AttributeError")
              ELSE Return(matched_skills(Members(skill_names), hub))

\* the or chain with response tried first
first_non_empty_reversed(data) ==
    py_or(py_or(py_or(dict_get(data, KeyResponse, JStr(<<>>)),
                      dict_get(data, KeyReasoning, JStr(<<>>))),
                dict_get(data, KeyMessageCap, JStr(<<>>))),
          dict_get(data, KeyMessage, JStr(<<>>)))

\* the or chain over the four fields, message first
first_non_empty(data) ==
    py_or(py_or(py_or(dict_get(data, KeyMessage, JStr(<<>>)),
                      dict_get(data, KeyMessageCap, JStr(<<>>))),
                dict_get(data, KeyReasoning, JStr(<<>>))),
          dict_get(data, KeyResponse, JStr(<<>>)))

parse_message_from_json_response(text) ==
    LET loaded == json_loads(text)
    IN  IF loaded = None THEN Return(strip(text))
        ELSE IF Get(loaded).t # "obj" THEN Raise("AttributeError")
        ELSE Return(strip(py_str(first_non_empty(Get(loaded)))))

\* ------------------------------------------------------------------------
\* SpecParse: the two parsers applied to one reply text
\* ------------------------------------------------------------------------
InitParse ==
    /\ AgentInit
    /\ model = {}
    /\ use_chat_history
    /\ use_trim_messages
    /\ persist_failed
    /\ messages = <<>>
    /\ trimmed = None
    /\ PipelineIdle
    /\ LabelIdle
    /\ json_response \in ReplyTexts
    /\ skills_hub \in Hubs
    /\ skills_result = None
    /\ message_result = None

ParseSkills ==
    /\ skills_result = None
    /\ skills_result' =
           Some(parse_skills_from_json_response(json_response, skills_hub))
    /\ UNCHANGED <<agentVars, messages, trimmed, pipelineVars, labelVars,
                   skills_hub,
                   json_response, message_result>>

ParseMessage ==
    /\ message_result = None
    /\ message_result' = Some(parse_message_from_json_response(json_response))
    /\ UNCHANGED <<agentVars, messages, trimmed, pipelineVars, labelVars,
                   skills_hub,
                   json_response, skills_result>>

NextParse == ParseSkills \/ ParseMessage

SpecParse == InitParse /\ [][NextParse]_vars

\* ------------------------------------------------------------------------
\* Properties of the parsers (SpecParse)
\* ------------------------------------------------------------------------
HasKey(data, key) == \E i \in DOMAIN data.pairs : data.pairs[i].key = key

IsNameList(v) ==
    /\ v.t = "list"
    /\ \A i \in DOMAIN v.items : v.items[i].t = "str"

\* the field of an object that carries the selection: "skills", or "Skills"
\* when "skills" is missing or empty
SkillsField(data) ==
    IF HasKey(data, KeySkills) /\ Truthy(dict_get(data, KeySkills, JNull))
    THEN Some(dict_get(data, KeySkills, JNull))
    ELSE IF HasKey(data, KeySkillsCap)
    THEN Some(dict_get(data, KeySkillsCap, JNull))
    ELSE IF HasKey(data, KeySkills)
    THEN Some(dict_get(data, KeySkills, JNull))
    ELSE None

\* the reply is an object whose skills field is a list of strings
WellFormedSelection(text) ==
    /\ json_loads(text) # None
    /\ Get(json_loads(text)).t = "obj"
    /\ SkillsField(Get(json_loads(text))) # None
    /\ IsNameList(Get(SkillsField(Get(json_loads(text)))))

\* the names a well-formed selection reply lists, in its order
GivenNames(text) ==
    LET l == Get(SkillsField(Get(json_loads(text))))
    IN  [i \in DOMAIN l.items |-> l.items[i].s]

InHub(name) ==
    \E i \in DOMAIN skills_hub : lower(skills_hub[i].name) = lower(name)

\* C17: for every reply text parse_skills_from_json_response returns a list
\* and never raises, and a reply that is not valid JSON, that is JSON of
\* another shape or that lacks the skills field yields the empty list.
C17_NeverRaises ==
    skills_result # None =>
        /\ Get(skills_result).raised = ""
        /\ ~WellFormedSelection(json_response) =>
               Get(skills_result).value = <<>>

\* C18: for a well-formed selection reply the result is the listed names
\* that match a hub skill's name case-insensitively, each resolved to that
\* hub skill, in the order of the reply; unmatched names are left out.
C18_ResolvedInReplyOrder ==
    (skills_result # None /\ WellFormedSelection(json_response)) =>
        LET kept == SelectSeq(GivenNames(json_response), InHub)
            value == Get(skills_result).value
        IN  /\ Get(skills_result).raised = ""
            /\ Len(value) = Len(kept)
            /\ \A k \in DOMAIN value :
                   /\ \E i \in DOMAIN skills_hub : value[k] = skills_hub[i]
                   /\ lower(value[k].name) = lower(kept[k])

\* a reply that lists an unknown name and then a hub skill in another
\* spelling than the hub's has been resolved to that one skill
C18_Witness ==
    /\ skills_result # None
    /\ WellFormedSelection(json_response)
    /\ Len(GivenNames(json_response)) = 2
    /\ ~InHub(GivenNames(json_response)[1])
    /\ Len(Get(skills_result).value) = 1
    /\ Get(skills_result).value[1].name # GivenNames(json_response)[2]

Priority == <<KeyMessage, KeyMessageCap, KeyReasoning, KeyResponse>>

\* the reply is an object
StructuredReply(text) ==
    /\ json_loads(text) # None
    /\ Get(json_loads(text)).t = "obj"

\* the reply is an object with at least one of the four answer fields
AnswerReply(text) ==
    /\ StructuredReply(text)
    /\ \E i \in DOMAIN Priority : HasKey(Get(json_loads(text)), Priority[i])

\* the positions in Priority of the fields the reply has
Present(text) ==
    {i \in DOMAIN Priority : HasKey(Get(json_loads(text)), Priority[i])}

\* the positions in Priority of the fields the reply has with a non-empty
\* value
NonEmpty(text) ==
    {i \in Present(text) :
        Truthy(dict_get(Get(json_loads(text)), Priority[i], JNull))}

First(positions) == CHOOSE i \in positions : \A j \in positions : i <= j

\* the text of the reply's field at position i of Priority
FieldText(text, i) ==
    strip(py_str(dict_get(Get(json_loads(text)), Priority[i], JNull)))

\* C19 as stated: the answer is the first field the reply has; a field of
\* lower priority is used only when every field above it is absent.
C19_Original ==
    (message_result # None /\ AnswerReply(json_response)) =>
        /\ Get(message_result).raised = ""
        /\ Get(message_result).value =
               FieldText(json_response, First(Present(json_response)))

\* C19: for a reply that is an object, the answer is the stripped text of
\* the first of message, Message, reasoning, response that has a non-empty
\* value; when none has, it is the stripped text of response, the empty
\* text if response is absent.
C19_FirstNonEmpty ==
    (message_result # None /\ StructuredReply(json_response)) =>
        /\ Get(message_result).raised = ""
        /\ Get(message_result).value =
             IF NonEmpty(json_response) # {}
             THEN FieldText(json_response, First(NonEmpty(json_response)))
             ELSE IF Len(Priority) \in Present(json_response)
             THEN FieldText(json_response, Len(Priority))
             ELSE <<>>

\* a reply whose message field is present but empty was answered from a
\* field below it
C19_Witness ==
    /\ message_result # None
    /\ AnswerReply(json_response)
    /\ First(Present(json_response)) = 1
    /\ NonEmpty(json_response) # {}
    /\ First(NonEmpty(json_response)) > 1
    /\ Get(message_result).value # <<>>

\* C20: for every reply text that is not an object carrying the answer
\* fields parse_message_from_json_response raises nothing and returns the
\* reply text itself, unchanged.
C20_FallsBackToRawText ==
    (message_result # None /\ ~AnswerReply(json_response)) =>
        /\ Get(message_result).raised = ""
        /\ Get(message_result).value = json_response

\* ------------------------------------------------------------------------
\* The main loop of the evaluation scripts (approach 1: Selection,
\* Discovery, Execution), test_agent_finer_300_stadard-claude.py and
\* test_agent_finer_300_stadard-qwen.py
\* ------------------------------------------------------------------------
\* number of dataset rows the main loop runs over
MaxTasks == 2
\* number of Discovery rounds of one row the model follows
MaxRounds == 3

\* '\n'.join(body.split('\n')[1:])
after_first_line(body) ==
    LET breaks == {i \in DOMAIN body : body[i] = Newline}
    IN  IF breaks = {} THEN <<>>
        ELSE SubSeq(body, (CHOOSE i \in breaks : \A j \in breaks : i <= j) + 1,
                    Len(body))

\* the f-string appended for one skill: "SKill <tag>: ", its description
\* and its body without the first line
Block(tag, skill_meta) ==
    [tag |-> tag, description |-> skill_meta.description,
     body |-> after_first_line(skill_meta.body)]

\* the for loop over selected_skills with = in the place of +=
AppendBlocks_replace(context, skills, count) ==
    [i \in 1..Len(skills) |-> Block(count + i, skills[i])]

\* the for loop over selected_skills: skill_execution_context += ... and
\* skill_count += 1 for each skill
AppendBlocks(context, skills, count) ==
    context \o [i \in 1..Len(skills) |-> Block(count + i, skills[i])]

\* the while condition with >= in the place of >
LoopContinues_always(selected) == Len(selected) >= 0

\* the while condition of Step 2
LoopContinues(selected) == Len(selected) > 0

\* new_skills_found without the subtraction
NewSkillsFound_total(count, prev) == count

\* new_skills_found = skill_count - skill_count_prev
NewSkillsFound(count, prev) == count - prev

\* hit_target_skill: the claude script looks the lower-cased target up in
\* the stored names, the qwen script the target as written
HitTarget(names) ==
    IF script = "claude"
    THEN \E i \in DOMAIN names : names[i] = lower(TargetName)
    ELSE \E i \in DOMAIN names : names[i] = TargetName

\* the replies the model gives to a Selection or Discovery prompt
SelectionReplies ==
    {dumps(JObj(<<Pair(KeySkills,
                       JList(<<JStr(lower(TargetName)), JStr(NameB)>>))>>)),
     dumps(JObj(<<Pair(KeySkills, JList(<<JStr(lower(NameC))>>))>>)),
     dumps(JObj(<<Pair(KeySkills, JList(<<>>))>>)),
     <<Ch("j")>>,
     dumps(JList(<<JStr(TargetName)>>))}

\* the replies the model gives to the Execution prompt
ExecutionReplies ==
    {dumps(JObj(<<Pair(KeyMessage, JStr(<<Space, Ch("m"), Space>>))>>)),
     dumps(JNum(7))}

\* what a chat that returns adds to the agent's chat_history
\* (use_chat_history=True): the prompt, named by its template, and the reply
RecordedPair(prompt, reply) ==
    <<[role |-> "human", content |-> prompt],
      [role |-> "ai", content |-> reply]>>

\* clear_history left out
clear_history_kept(history) == history

\* agent.clear_history()
clear_history(history) == <<>>

Exchange(kind, context, selected) ==
    [kind |-> kind, context |-> context, selected |-> selected]

InitPipeline ==
    /\ AgentInit
    /\ model = {}
    /\ use_chat_history
    /\ use_trim_messages
    /\ persist_failed
    /\ messages = <<>>
    /\ trimmed = None
    /\ ParseIdle
    /\ LabelIdle
    /\ skills_hub \in Hubs
    /\ script \in {"claude", "qwen"}
    /\ task = 0
    /\ step = "select"
    /\ selected_skills = <<>>
    /\ selected_skill_names_step1 = <<>>
    /\ hit_target_skill = FALSE
    /\ skill_execution_context = <<>>
    /\ skill_count = 0
    /\ skill_count_prev = 0
    /\ discovery_rounds = 0
    /\ exchanges_log = <<>>
    /\ record = None
    /\ history_select = <<>>
    /\ history_exec = <<>>
    /\ approach_start = 0

\* Step 1 of a row: the Selection chat, its reply parsed, the blocks of the
\* selected skills written to a new context
Selection ==
    \E reply \in SelectionReplies :
      LET parsed == parse_skills_from_json_response(reply, skills_hub)
          names == [i \in DOMAIN parsed.value |-> parsed.value[i].name]
      IN
        /\ step = "select"
        /\ task < MaxTasks
        /\ task' = task + 1
        /\ exchanges_log' = <<Exchange("Selection", <<>>, parsed.value)>>
        /\ history_select' =
               history_select \o RecordedPair("Selection", reply)
        /\ IF parsed.raised # ""
           THEN /\ step' = "crashed"
                /\ UNCHANGED <<selected_skills, selected_skill_names_step1,
                               hit_target_skill, skill_execution_context,
                               skill_count, skill_count_prev,
                               discovery_rounds>>
           ELSE /\ step' = "loop"
                /\ selected_skills' = parsed.value
                /\ selected_skill_names_step1' = names
                /\ hit_target_skill' = HitTarget(names)
                /\ skill_execution_context' =
                       AppendBlocks(<<>>, parsed.value, skill_count)
                /\ skill_count' = skill_count + Len(parsed.value)
                /\ skill_count_prev' = skill_count + Len(parsed.value)
                /\ discovery_rounds' = 0
        /\ UNCHANGED <<agentVars, messages, trimmed, parseVars, labelVars,
                       skills_hub,
                       script, record, history_exec, approach_start>>

\* one pass of the while loop of Step 2
Discovery ==
    \E reply \in SelectionReplies :
      LET parsed == parse_skills_from_json_response(reply, skills_hub)
      IN
        /\ step = "loop"
        /\ LoopContinues(selected_skills)
        /\ discovery_rounds < MaxRounds
        /\ exchanges_log' =
               Append(exchanges_log,
                      Exchange("Discovery", skill_execution_context,
                               parsed.value))
        /\ history_exec' = history_exec \o RecordedPair("Discovery", reply)
        /\ IF parsed.raised # ""
           THEN /\ step' = "crashed"
                /\ UNCHANGED <<selected_skills, skill_execution_context,
                               skill_count, discovery_rounds>>
           ELSE /\ step' = "loop"
                /\ selected_skills' = parsed.value
                /\ skill_execution_context' =
                       AppendBlocks(skill_execution_context, parsed.value,
                                    skill_count)
                /\ skill_count' = skill_count + Len(parsed.value)
                /\ discovery_rounds' = discovery_rounds + 1
        /\ UNCHANGED <<agentVars, messages, trimmed, parseVars, labelVars,
                       skills_hub,
                       script, task, selected_skill_names_step1,
                       hit_target_skill, skill_count_prev, record,
                       history_select, approach_start>>

\* Step 3 of a row: the Execution chat, its reply parsed, the record
\* written with the exported histories, the histories of both agents cleared
Execution ==
    \E reply \in ExecutionReplies :
      LET parsed == parse_message_from_json_response(reply)
          recorded == history_exec \o RecordedPair("Execution", reply)
      IN
        /\ step = "loop"
        /\ ~LoopContinues(selected_skills)
        /\ exchanges_log' =
               Append(exchanges_log,
                      Exchange("Execution", skill_execution_context, <<>>))
        /\ IF parsed.raised # ""
           THEN /\ step' = "crashed"
                /\ history_exec' = recorded
                /\ UNCHANGED <<record, history_select>>
           ELSE /\ step' = "baselines"
                /\ history_select' = clear_history(history_select)
                /\ history_exec' = clear_history(recorded)
                /\ record' =
                     Some([index |-> task,
                        task_type |-> "agent_skill_based",
                        raw_response |-> parsed.value,
                        selected_skills_step1 |-> selected_skill_names_step1,
                        hit_target_skill |-> hit_target_skill,
                        new_skills_discovered |->
                            NewSkillsFound(skill_count, skill_count_prev),
                        discovery_rounds |-> discovery_rounds,
                        chat_history_agent_skill_select |->
                            export_from(history_select, 0),
                        chat_history_agent_exec |->
                            export_from(recorded, 0)])
        /\ UNCHANGED <<agentVars, messages, trimmed, parseVars, labelVars,
                       skills_hub,
                       script, task, selected_skills,
                       selected_skill_names_step1, hit_target_skill,
                       skill_execution_context, skill_count, skill_count_prev,
                       discovery_rounds, approach_start>>

\* Approaches 2 and 3 of a row: the chats of agent_simple, the record
\* overwritten by theirs, the next row due
Baselines ==
    /\ step = "baselines"
    /\ step' = "select"
    /\ record' = Some([index |-> task,
                      task_type |-> "agent_skill_full_context"])
    /\ UNCHANGED <<agentVars, messages, trimmed, parseVars, labelVars,
                   skills_hub,
                   script, task, selected_skills, selected_skill_names_step1,
                   hit_target_skill, skill_execution_context, skill_count,
                   skill_count_prev, discovery_rounds, exchanges_log,
                   history_select, history_exec, approach_start>>

\* a chat call of the row raises: the script ends
ChatRaises ==
    /\ \/ step = "select" /\ task < MaxTasks
       \/ step = "baselines"
       \/ step = "loop" /\ ~LoopContinues(selected_skills)
       \/ /\ step = "loop"
          /\ LoopContinues(selected_skills)
          /\ discovery_rounds < MaxRounds
    /\ step' = "crashed"
    /\ UNCHANGED <<agentVars, messages, trimmed, parseVars, labelVars,
                       skills_hub,
                   script, task, selected_skills, selected_skill_names_step1,
                   hit_target_skill, skill_execution_context, skill_count,
                   skill_count_prev, discovery_rounds, exchanges_log,
                   record, history_select, history_exec, approach_start>>

NextPipeline == Selection \/ Discovery \/ Execution \/ Baselines \/ ChatRaises

SpecPipeline == InitPipeline /\ [][NextPipeline]_vars

\* ------------------------------------------------------------------------
\* Properties of the main loop (SpecPipeline)
\* ------------------------------------------------------------------------
\* the record of the row's skill-based approach has just been written
RowDone == step = "baselines"

LastRecord == Get(record)

\* the positions of the row's Discovery exchanges
DiscoveryExchanges ==
    {i \in DOMAIN exchanges_log : exchanges_log[i].kind = "Discovery"}

\* the number of skills the exchanges at the positions among the first n
\* resolved
RECURSIVE ResolvedIn(_, _)
ResolvedIn(positions, n) ==
    IF n = 0 THEN 0
    ELSE ResolvedIn(positions, n - 1)
         + (IF n \in positions THEN Len(exchanges_log[n].selected) ELSE 0)

\* C11: when the Discovery loop of a row has ended and its record is
\* written, discovery_rounds is the number of Discovery exchanges issued
\* and new_skills_discovered the number of skills resolved by the Discovery
\* exchanges, those of the Selection exchange not counted.
C11_DiscoveryMetrics ==
    RowDone =>
        /\ LastRecord.discovery_rounds = Cardinality(DiscoveryExchanges)
        /\ LastRecord.new_skills_discovered =
               ResolvedIn(DiscoveryExchanges, Len(exchanges_log))

\* Selection resolved two skills, round 1 one skill, round 2 none: two
\* rounds and one new skill are recorded
C11_Witness ==
    /\ RowDone
    /\ Len(exchanges_log) = 4
    /\ Len(exchanges_log[1].selected) = 2
    /\ Len(exchanges_log[2].selected) = 1
    /\ Len(exchanges_log[3].selected) = 0
    /\ LastRecord.discovery_rounds = 2
    /\ LastRecord.new_skills_discovered = 1

\* C12: there is a cap on the Discovery rounds of a row: once MaxRounds
\* rounds have run no further round is due, whatever the replies were.
C12_HardRoundCap ==
    ~(/\ step = "loop"
      /\ LoopContinues(selected_skills)
      /\ discovery_rounds >= MaxRounds)

\* C13: the exchanges of a row are one Selection, then Discovery exchanges,
\* then at most one Execution that ends the row; a Discovery follows only a
\* non-empty selection, the Execution only an empty one, and a finished row
\* ends with its Execution.
C13_ExchangeOrder ==
    /\ \A i \in DOMAIN exchanges_log :
          /\ (exchanges_log[i].kind = "Selection") = (i = 1)
          /\ exchanges_log[i].kind \in {"Selection", "Discovery", "Execution"}
          /\ exchanges_log[i].kind = "Execution" => i = Len(exchanges_log)
          /\ exchanges_log[i].kind = "Discovery" =>
                 exchanges_log[i - 1].selected # <<>>
          /\ exchanges_log[i].kind = "Execution" =>
                 exchanges_log[i - 1].selected = <<>>
    /\ RowDone =>
          exchanges_log[Len(exchanges_log)].kind = "Execution"

\* a row with two Discovery rounds has been finished
C13_Witness ==
    /\ RowDone
    /\ Len(exchanges_log) = 4
    /\ exchanges_log[2].kind = "Discovery"
    /\ exchanges_log[3].kind = "Discovery"
    /\ exchanges_log[4].kind = "Execution"

IsPrefix(a, b) == Len(a) <= Len(b) /\ SubSeq(b, 1, Len(a)) = a

\* C14: within a row every context handed to an earlier exchange is a
\* prefix of the context handed to a later one and of the context as it
\* stands.
C14_AppendOnly ==
    /\ \A i \in DOMAIN exchanges_log : \A j \in DOMAIN exchanges_log :
          i <= j => IsPrefix(exchanges_log[i].context,
                             exchanges_log[j].context)
    /\ \A i \in DOMAIN exchanges_log :
          IsPrefix(exchanges_log[i].context, skill_execution_context)

\* the Execution of a row received a context of three blocks that two
\* Discovery rounds had received at two and at three blocks
C14_Witness ==
    /\ RowDone
    /\ Len(exchanges_log) = 4
    /\ Len(exchanges_log[2].context) = 2
    /\ Len(exchanges_log[3].context) = 3
    /\ Len(exchanges_log[4].context) = 3

\* C15: in every row the tags of the blocks of the context count from the
\* same start, 1, 2, 3, ..., whatever rows ran before.
C15_TagsRestartPerRow ==
    \A i \in DOMAIN skill_execution_context :
        skill_execution_context[i].tag = i

\* C16: hit_target_skill is true exactly when a skill resolved by the
\* Selection exchange has the target name up to letter case.
C16_HitTargetAnyCase ==
    hit_target_skill =
        (\E i \in DOMAIN selected_skill_names_step1 :
             lower(selected_skill_names_step1[i]) = lower(TargetName))

\* ------------------------------------------------------------------------
\* evaluate.py: the label extractors
\* ------------------------------------------------------------------------
\* number of pieces a text handed to the extractors is put together from
MaxPieces == 3

\* the str spelled by the letters w, all capitals
Upper(w) == [i \in DOMAIN w |-> Up(w[i])]

\* is the str w found in the str s at position i
found_at(s, w, i) ==
    /\ i >= 1
    /\ i + Len(w) - 1 <= Len(s)
    /\ SubSeq(s, i, i + Len(w) - 1) = w

\* w in s
contains(s, w) == \E i \in 1..(Len(s) + 1) : found_at(s, w, i)

\* s.startswith(w) taken for w in s
startswith_anywhere(s, w) == contains(s, w)

\* s.startswith(w)
startswith(s, w) == found_at(s, w, 1)

Positive == Word(<<"p", "o", "s", "i", "t", "i", "v", "e">>)

Negative == Word(<<"n", "e", "g", "a", "t", "i", "v", "e">>)

Unknown == Word(<<"u", "n", "k", "n", "o", "w", "n">>)

\* message_classification or ""
or_empty(message) == IF message = None THEN <<>> ELSE Get(message)

\* get_predicted_label with the ambiguous case settled by the keyword that
\* occurs first
get_predicted_label_first_found(message) ==
    LET msg_lower == lower(strip(or_empty(message)))
        first(w) == CHOOSE i \in 1..Len(msg_lower) :
                        /\ found_at(msg_lower, w, i)
                        /\ \A j \in 1..(i - 1) : ~found_at(msg_lower, w, j)
    IN  IF contains(msg_lower, Positive) /\ ~contains(msg_lower, Negative)
        THEN Return(Positive)
        ELSE IF contains(msg_lower, Negative) /\ ~contains(msg_lower, Positive)
        THEN Return(Negative)
        ELSE IF contains(msg_lower, Positive) /\ contains(msg_lower, Negative)
        THEN (IF first(Positive) < first(Negative) THEN Return(Positive)
              ELSE Return(Negative))
        ELSE Return(Unknown)

get_predicted_label(message) ==
    LET msg_lower == lower(strip(or_empty(message)))
    IN  IF contains(msg_lower, Positive) /\ ~contains(msg_lower, Negative)
        THEN Return(Positive)
        ELSE IF contains(msg_lower, Negative) /\ ~contains(msg_lower, Positive)
        THEN Return(Negative)
        ELSE IF startswith(msg_lower, Positive) THEN Return(Positive)
        ELSE IF startswith(msg_lower, Negative) THEN Return(Negative)
        ELSE Return(Unknown)

Goodwill == Capitalized(<<"g", "o", "o", "d", "w", "i", "l", "l">>)

ImpairmentLoss ==
    Capitalized(<<"i", "m", "p", "a", "i", "r", "m", "e", "n", "t">>)
    \o Capitalized(<<"l", "o", "s", "s">>)

Revenues == Capitalized(<<"r", "e", "v", "e", "n", "u", "e", "s">>)

\* XBRL_TAGS, cut down to three of its 139 tags, in the order of the list
XBRL_TAGS == <<Goodwill \o ImpairmentLoss, Revenues, Goodwill>>

\* max(matches, key=len) returning the last match
max_by_len_last(matches) == matches[Len(matches)]

\* max(matches, key=len): the first of the longest matches
max_by_len(matches) ==
    matches[CHOOSE i \in DOMAIN matches :
                /\ \A j \in DOMAIN matches : Len(matches[j]) <= Len(matches[i])
                /\ \A j \in 1..(i - 1) : Len(matches[j]) < Len(matches[i])]

get_prediction_XBRL_TAGS(message) ==
    IF message = None \/ or_empty(message) = <<>> THEN Return(Unknown)
    ELSE
      LET text == strip(Get(message))
          XBRL_TAGS_LOWER == [i \in DOMAIN XBRL_TAGS |->
                                 [lower |-> lower(XBRL_TAGS[i]),
                                  original |-> XBRL_TAGS[i]]]
          in_text(tag) == contains(text, tag)
          in_text_lower(item) == contains(lower(text), item.lower)
          exact_matches == SelectSeq(XBRL_TAGS, in_text)
          ci_items == SelectSeq(XBRL_TAGS_LOWER, in_text_lower)
          ci_matches == [i \in DOMAIN ci_items |-> ci_items[i].original]
      IN  IF exact_matches # <<>> THEN Return(max_by_len(exact_matches))
          ELSE IF ci_matches # <<>> THEN Return(max_by_len(ci_matches))
          ELSE Return(Unknown)

Yes == Word(<<"y", "e", "s">>)

No == Word(<<"n", "o">>)

Letters ==
    {"a", "b", "c", "d", "e", "f", "g", "h", "i", "j", "k", "l", "m", "n",
     "o", "p", "q", "r", "s", "t", "u", "v", "w", "x", "y", "z"}

\* does \w match the character
is_word_char(ch) == ch.c \in Letters \cup Digits \cup {"_"}

\* does \b match before position i of s
boundary(s, i) ==
    (i - 1 \in DOMAIN s /\ is_word_char(s[i - 1]))
        # (i \in DOMAIN s /\ is_word_char(s[i]))

\* re.compile(w, re.IGNORECASE).search(s): the pattern without its \b
search_inside(s, w) ==
    \E i \in 1..Len(s) :
        /\ i + Len(w) - 1 <= Len(s)
        /\ lower(SubSeq(s, i, i + Len(w) - 1)) = w

\* re.compile(r"\bw\b", re.IGNORECASE).search(s)
search(s, w) ==
    \E i \in 1..Len(s) :
        /\ i + Len(w) - 1 <= Len(s)
        /\ lower(SubSeq(s, i, i + Len(w) - 1)) = w
        /\ boundary(s, i)
        /\ boundary(s, i + Len(w))

get_insurBench_predicted_label(message) ==
    IF message = None THEN Raise("AttributeError")
    ELSE LET s == strip(Get(message))
         IN  IF search(s, Yes) THEN Return(Upper(<<"y", "e", "s">>))
             ELSE IF search(s, No) THEN Return(Upper(<<"n", "o">>))
             ELSE Return(Unknown)

\* ------------------------------------------------------------------------
\* SpecLabel: the three extractors applied to one text
\* ------------------------------------------------------------------------
RECURSIVE Joined(_)
Joined(pieces) ==
    IF pieces = <<>> THEN <<>> ELSE Head(pieces) \o Joined(Tail(pieces))

\* the texts put together from MaxPieces pieces or fewer
TextsOf(pieces) ==
    UNION {{Joined(f) : f \in [1..k -> pieces]} : k \in 0..MaxPieces}

SentimentPieces ==
    {Positive, Negative,
     Capitalized(<<"p", "o", "s", "i", "t", "i", "v", "e">>),
     Upper(<<"n", "e", "g", "a", "t", "i", "v", "e">>),
     <<Space>>, <<Ch("x")>>}

TagPieces ==
    {Goodwill, ImpairmentLoss, lower(Goodwill), lower(ImpairmentLoss),
     Revenues, <<Space>>}

YesNoPieces ==
    {Yes, No, Capitalized(<<"y", "e", "s">>), <<Ch("t")>>, <<Space>>,
     <<Ch(",")>>}

\* "This is not negative, it is positive overall"
BothKeywordsText ==
    <<Up("t"), Ch("h"), Ch("i"), Ch("s"), Ch(" "), Ch("i"), Ch("s"),
      Ch(" "), Ch("n"), Ch("o"), Ch("t"), Ch(" "), Ch("n"), Ch("e"),
      Ch("g"), Ch("a"), Ch("t"), Ch("i"), Ch("v"), Ch("e"), Ch(","),
      Ch(" "), Ch("i"), Ch("t"), Ch(" "), Ch("i"), Ch("s"), Ch(" "),
      Ch("p"), Ch("o"), Ch("s"), Ch("i"), Ch("t"), Ch("i"), Ch("v"),
      Ch("e"), Ch(" "), Ch("o"), Ch("v"), Ch("e"), Ch("r"), Ch("a"),
      Ch("l"), Ch("l")>>

\* "yesterday was fine"
YesterdayText ==
    <<Ch("y"), Ch("e"), Ch("s"), Ch("t"), Ch("e"), Ch("r"), Ch("d"),
      Ch("a"), Ch("y"), Ch(" "), Ch("w"), Ch("a"), Ch("s"), Ch(" "),
      Ch("f"), Ch("i"), Ch("n"), Ch("e")>>

LabelTexts ==
    TextsOf(SentimentPieces) \cup TextsOf(TagPieces) \cup TextsOf(YesNoPieces)
    \cup {BothKeywordsText, YesterdayText}

InitLabel ==
    /\ AgentInit
    /\ model = {}
    /\ use_chat_history
    /\ use_trim_messages
    /\ persist_failed
    /\ messages = <<>>
    /\ trimmed = None
    /\ skills_hub = <<>>
    /\ ParseIdle
    /\ PipelineIdle
    /\ message_classification \in {None} \cup {Some(t) : t \in LabelTexts}
    /\ predicted_label = None
    /\ xbrl_tag = None
    /\ insur_label = None

PredictLabel ==
    /\ predicted_label = None
    /\ predicted_label' = Some(get_predicted_label(message_classification))
    /\ UNCHANGED <<agentVars, messages, trimmed, skills_hub, parseVars,
                   pipelineVars, message_classification, xbrl_tag,
                   insur_label>>

PredictXbrlTag ==
    /\ xbrl_tag = None
    /\ xbrl_tag' = Some(get_prediction_XBRL_TAGS(message_classification))
    /\ UNCHANGED <<agentVars, messages, trimmed, skills_hub, parseVars,
                   pipelineVars, message_classification, predicted_label,
                   insur_label>>

PredictInsurLabel ==
    /\ insur_label = None
    /\ insur_label' =
           Some(get_insurBench_predicted_label(message_classification))
    /\ UNCHANGED <<agentVars, messages, trimmed, skills_hub, parseVars,
                   pipelineVars, message_classification, predicted_label,
                   xbrl_tag>>

NextLabel == PredictLabel \/ PredictXbrlTag \/ PredictInsurLabel

SpecLabel == InitLabel /\ [][NextLabel]_vars

\* ------------------------------------------------------------------------
\* Claims on the label extractors
\* ------------------------------------------------------------------------
GivenText == Get(message_classification)

\* the label the sentiment rules name for the text t
SentimentOf(t) ==
    LET positive == contains(t, Positive)
        negative == contains(t, Negative)
    IN  IF positive /\ ~negative THEN Positive
        ELSE IF negative /\ ~positive THEN Negative
        ELSE IF positive /\ negative /\ found_at(t, Positive, 1) THEN Positive
        ELSE IF positive /\ negative /\ found_at(t, Negative, 1) THEN Negative
        ELSE Unknown

\* C21 as stated: the sentiment extractor follows the rules (one keyword:
\* that keyword; both: the one the text starts with; otherwise unknown) on
\* the lowercased text.
C21_Original ==
    (message_classification # None /\ predicted_label # None)
        => Get(predicted_label) = Return(SentimentOf(lower(GivenText)))

\* C21: the sentiment extractor follows the rules (one keyword: that keyword;
\* both: the one the text starts with; otherwise unknown) on the text with
\* its surrounding whitespace removed and then lowercased.
C21_RulesOnStrippedText ==
    (message_classification # None /\ predicted_label # None)
        => Get(predicted_label)
               = Return(SentimentOf(lower(strip(GivenText))))

\* both keywords occur behind leading whitespace and a label was extracted
C21_Witness ==
    /\ message_classification # None
    /\ predicted_label # None
    /\ GivenText # <<>>
    /\ Head(GivenText) = Space
    /\ contains(lower(GivenText), Positive)
    /\ contains(lower(GivenText), Negative)
    /\ Get(predicted_label).value \in {Positive, Negative}

\* C22 as stated: for "This is not negative, it is positive overall" the
\* sentiment extractor returns "positive".
C22_Original ==
    (message_classification = Some(BothKeywordsText) /\ predicted_label # None)
        => Get(predicted_label) = Return(Positive)

\* C22: for "This is not negative, it is positive overall" the sentiment
\* extractor returns "unknown".
C22_ReturnsUnknown ==
    (message_classification = Some(BothKeywordsText) /\ predicted_label # None)
        => Get(predicted_label) = Return(Unknown)

C22_Witness ==
    /\ message_classification = Some(BothKeywordsText)
    /\ predicted_label # None
    /\ contains(lower(BothKeywordsText), Positive)
    /\ contains(lower(BothKeywordsText), Negative)

\* the tags of the closed set found in the text, as they are written
ExactTags == {i \in DOMAIN XBRL_TAGS : contains(GivenText, XBRL_TAGS[i])}

\* the tags of the closed set found in the text whatever the case
AnyCaseTags ==
    {i \in DOMAIN XBRL_TAGS :
         contains(lower(GivenText), lower(XBRL_TAGS[i]))}

\* tag is one of the longest tags among found
LongestOf(found, tag) ==
    \E i \in found :
        /\ XBRL_TAGS[i] = tag
        /\ \A j \in found : Len(XBRL_TAGS[j]) <= Len(tag)

\* C23: the tag matcher returns the longest tag found case-sensitively in the
\* text when there is one, otherwise the longest tag found
\* case-insensitively, otherwise "unknown"; the result is a tag of the closed
\* set or "unknown".
C23_LongestTagWins ==
    (message_classification # None /\ xbrl_tag # None)
        => /\ Get(xbrl_tag).raised = ""
           /\ IF ExactTags # {}
              THEN LongestOf(ExactTags, Get(xbrl_tag).value)
              ELSE IF AnyCaseTags # {}
              THEN LongestOf(AnyCaseTags, Get(xbrl_tag).value)
              ELSE Get(xbrl_tag).value = Unknown
           /\ Get(xbrl_tag).value
                  \in {XBRL_TAGS[i] : i \in DOMAIN XBRL_TAGS} \cup {Unknown}

\* Goodwill and GoodwillImpairmentLoss are both found and the longer is
\* returned
C23_Witness ==
    /\ message_classification # None
    /\ xbrl_tag = Some(Return(Goodwill \o ImpairmentLoss))
    /\ {1, 3} \subseteq ExactTags

\* does w occur in s as a whole word, whatever the case
WholeWord(s, w) ==
    \E i \in 1..Len(s) :
        /\ found_at(lower(s), w, i)
        /\ (i = 1 \/ ~is_word_char(s[i - 1]))
        /\ (i + Len(w) > Len(s) \/ ~is_word_char(s[i + Len(w)]))

\* C24: the Yes/No matcher returns "YES" when the whole word "yes" occurs in
\* whatever case, "NO" when only the whole word "no" does, "unknown"
\* otherwise; "yesterday was fine" yields "unknown".
C24_WholeWordYesFirst ==
    (message_classification # None /\ insur_label # None)
        => /\ Get(insur_label) =
                  IF WholeWord(GivenText, Yes)
                  THEN Return(Upper(<<"y", "e", "s">>))
                  ELSE IF WholeWord(GivenText, No)
                  THEN Return(Upper(<<"n", "o">>))
                  ELSE Return(Unknown)
           /\ GivenText = YesterdayText => Get(insur_label) = Return(Unknown)

C24_Witness ==
    /\ message_classification = Some(YesterdayText)
    /\ insur_label = Some(Return(Unknown))
    /\ contains(YesterdayText, Yes)

\* C25: each of the three extractors returns a label or "unknown" for every
\* input, the empty text and a missing text included, and never raises.
C25_ExtractorsTotal ==
    /\ predicted_label # None => Get(predicted_label).raised = ""
    /\ xbrl_tag # None => Get(xbrl_tag).raised = ""
    /\ insur_label # None => Get(insur_label).raised = ""

\* ------------------------------------------------------------------------
\* SpecApproaches: agent_simple over the approaches of the scripts, its
\* history cleared between one approach and the next
\* ------------------------------------------------------------------------
InitApproaches ==
    /\ AgentInit
    /\ use_chat_history
    /\ ~use_trim_messages
    /\ messages = <<>>
    /\ trimmed = None
    /\ skills_hub = <<>>
    /\ ParseIdle
    /\ LabelIdle
    /\ script \in {"claude", "qwen"}
    /\ model = IF script = "claude" THEN {"claude"} ELSE {}
    /\ task = 0
    /\ step = "select"
    /\ selected_skills = <<>>
    /\ selected_skill_names_step1 = <<>>
    /\ hit_target_skill = FALSE
    /\ skill_execution_context = <<>>
    /\ skill_count = 0
    /\ skill_count_prev = 0
    /\ discovery_rounds = 0
    /\ exchanges_log = <<>>
    /\ record = None
    /\ history_select = <<>>
    /\ history_exec = <<>>
    /\ approach_start = 0

\* the chat of an approach; a chat that raised has ended the script
ApproachChat ==
    /\ exchanges < MaxExchanges
    /\ exchanges = approach_start
    /\ outcome.kind # "raised"
    /\ ChatBegin(SessionText, Some(CustomSystemPrompt), None, "self")

\* agent_simple.clear_history() once the approach's chat has returned; the
\* next approach begins
NextApproach ==
    /\ pc = "idle"
    /\ exchanges > approach_start
    /\ outcome.kind = "returned"
    /\ chat_history' = <<>>
    /\ approach_start' = exchanges
    /\ UNCHANGED <<model, use_chat_history, use_trim_messages, persist_failed,
                   runtime_config, caller_config, next_uuid, checkpoints,
                   first_entry, used_threads, pc, user_input, system_message,
                   current_input, attempt, should_use_history, cfg, exchanges,
                   history_before, outcome, faults, last_fault, calls,
                   messages, trimmed, skills_hub, parseVars, labelVars,
                   script, task, step, selected_skills,
                   selected_skill_names_step1, hit_target_skill,
                   skill_execution_context, skill_count, skill_count_prev,
                   discovery_rounds, exchanges_log, record, history_select,
                   history_exec>>

NextApproaches == ApproachChat \/ Returns \/ SessionRaises \/ NextApproach

SpecApproaches == InitApproaches /\ [][NextApproaches]_vars

\* ------------------------------------------------------------------------
\* Claims on the exported history, clear_history and the session identity
\* ------------------------------------------------------------------------
Exported == get_human_ai_message_history

\* are the entries of an exported history human and assistant in turn,
\* the pairs numbered from 1
PairsNumbered(history) ==
    \A i \in DOMAIN history :
        /\ history[i].role = IF i % 2 = 1 THEN "human" ELSE "ai"
        /\ history[i].turn = (i + 1) \div 2

\* C26: the exported history alternates human and assistant entries
\* starting with a human entry, its turn numbers are positive and never
\* decrease, the i-th human entry carries turn i and each assistant entry
\* carries the turn of the human entry just before it.
C26_TurnsNumbered ==
    LET history == get_human_ai_message_history
    IN  \A i \in DOMAIN history :
            /\ history[i].role = IF i % 2 = 1 THEN "human" ELSE "ai"
            /\ history[i].turn >= 1
            /\ i > 1 => history[i - 1].turn <= history[i].turn
            /\ history[i].role = "human" =>
                   history[i].turn =
                       Cardinality({j \in 1..i : history[j].role = "human"})
            /\ history[i].role = "ai" =>
                   /\ i > 1
                   /\ history[i - 1].role = "human"
                   /\ history[i].turn = history[i - 1].turn

\* two exchanges were recorded after an earlier one, cleared or unrecorded
C26_Witness ==
    /\ Len(Exported) = 4
    /\ exchanges = 3
    /\ Exported[4].turn = 2

\* C27: after the clear_history between two approaches, neither the history
\* recorded for the later approach nor the turn list submitted to the model
\* for its exchanges contains a turn exchanged before the clear.
C27_NothingFromBeforeClear ==
    (approach_start > 0 /\ exchanges > approach_start) =>
        /\ Len(chat_history) <= 2 * (exchanges - approach_start)
        /\ \A i \in DOMAIN calls :
               \A j \in DOMAIN calls[i].passed :
                   calls[i].passed[j].exchange > approach_start

\* the names of the skills the row's exchanges resolved
RowSkillNames ==
    UNION {{exchanges_log[i].selected[k].name :
                k \in DOMAIN exchanges_log[i].selected} :
           i \in DOMAIN exchanges_log}

\* C28: within a row no skill is appended to skill_execution_context more
\* than once, and a skill named again is not counted again in
\* new_skills_discovered (a row whose script has crashed is left aside: its
\* context may still be the one of the row before).
C28_NoSkillTwice ==
    /\ step # "crashed" =>
           Len(skill_execution_context) <= Cardinality(RowSkillNames)
    /\ RowDone =>
           Len(LastRecord.selected_skills_step1)
               + LastRecord.new_skills_discovered
                   <= Cardinality(RowSkillNames)

\* C29: once chat has returned or raised, self.runtime_config and the
\* caller's config hold the thread_id they held before the call.
C29_ThreadIdKept ==
    pc = "idle" =>
        /\ runtime_config = InitThreadId
        /\ caller_config \in CallerThreadIds

\* C30: when the record of the skill-based approach is built, the exported
\* history of the selection agent is one pair and that of the execution
\* agent discovery_rounds + 1 pairs, numbered 1..discovery_rounds + 1, in
\* every row of a run.
C30_HistoriesPerRow ==
    RowDone =>
        /\ Len(LastRecord.chat_history_agent_skill_select) = 2
        /\ PairsNumbered(LastRecord.chat_history_agent_skill_select)
        /\ Len(LastRecord.chat_history_agent_exec)
               = 2 * (LastRecord.discovery_rounds + 1)
        /\ PairsNumbered(LastRecord.chat_history_agent_exec)

\* the record of a second row that had one Discovery round
C30_Witness ==
    /\ RowDone
    /\ task = 2
    /\ LastRecord.index = 2
    /\ LastRecord.discovery_rounds = 1
    /\ Len(LastRecord.chat_history_agent_exec) = 4
    /\ LastRecord.chat_history_agent_exec[4].turn = 2

====
